---------------------------- MODULE Spec2Model ----------------------------
(***************************************************************************)
(* A model of main.py of ChallengeMewo: the feature splitter, the soft-F1   *)
(* loss and metric functions, the assembly of the two residual fusion       *)
(* blocks, the training run with early stopping, and the chunked test      *)
(* prediction loop.                                                         *)
(*                                                                         *)
(* Tensors of the loss engine are float32 (K.cast(..., 'float')).  A       *)
(* float32 is modelled bit-exactly as <<s, m, e>>: sign s in {1,-1},       *)
(* 24-bit significand m in [2^23, 2^24) and exponent e, standing for       *)
(* s * m * 2^e, with round-to-nearest-even after every operation.          *)
(* Subnormals and overflow are not modelled: the operands drawn below      *)
(* keep every intermediate value in the normal range.                      *)
(***************************************************************************)
EXTENDS Integers, Sequences, FiniteSets, TLC

-----------------------------------------------------------------------------
(* float32 arithmetic                                                      *)

TwoP23 == 8388608
TwoP24 == 16777216

F32Zero == <<1, 0, 0>>
F32NaN  == <<1, -1, 0>>
F32Inf  == <<1, -2, 0>>

IsNaN(x)  == x[2] = -1
IsInf(x)  == x[2] = -2
IsZero(x) == x[2] = 0

\* Round the significand q, followed by the fraction r/d, to nearest-even.
Pack(s, q, r, d, e) ==
    LET up == (2 * r > d) \/ (2 * r = d /\ q % 2 = 1)
        m  == IF up THEN q + 1 ELSE q
    IN  IF m = TwoP24 THEN <<s, TwoP23, e + 1>> ELSE <<s, m, e>>

RECURSIVE NormInt(_, _)
\* n * 2^e with 0 < n < 2^24, normalised.
NormInt(n, e) == IF n >= TwoP23 THEN <<1, n, e>> ELSE NormInt(2 * n, e - 1)

FromInt(n) == IF n = 0 THEN F32Zero ELSE NormInt(n, 0)

F32One  == FromInt(1)
F32Two  == FromInt(2)
F32Half == <<1, TwoP23, -24>>

\* n / 2^k as a float32.
Level(n, k) == NormInt(n, -k)

Neg(x) == IF x[2] <= 0 /\ ~IsInf(x) THEN x ELSE <<-x[1], x[2], x[3]>>

F32Mul(a, b) ==
    IF IsNaN(a) \/ IsNaN(b) THEN F32NaN
    ELSE IF IsInf(a) \/ IsInf(b)
         THEN IF IsZero(a) \/ IsZero(b) THEN F32NaN
              ELSE <<a[1] * b[1], -2, 0>>
    ELSE IF IsZero(a) \/ IsZero(b) THEN F32Zero
    ELSE LET ah  == a[2] \div 4096
             al  == a[2] % 4096
             bh  == b[2] \div 4096
             bl  == b[2] % 4096
             mid == ah * bl + al * bh
             t   == al * bl + (mid % 4096) * 4096
             lo  == t % TwoP24
             hi  == ah * bh + (mid \div 4096) + (t \div TwoP24)
         IN  IF hi >= TwoP23
             THEN Pack(a[1] * b[1], hi, lo, TwoP24, a[3] + b[3] + 24)
             ELSE Pack(a[1] * b[1], 2 * hi + (lo \div TwoP23), lo % TwoP23,
                       TwoP23, a[3] + b[3] + 23)

RECURSIVE DivBits(_, _, _, _)
\* n more quotient bits of r/d (r < d), appended to q: <<quotient, remainder>>.
DivBits(r, d, n, q) ==
    IF n = 0 THEN <<q, r>>
    ELSE IF 2 * r >= d THEN DivBits(2 * r - d, d, n - 1, 2 * q + 1)
         ELSE DivBits(2 * r, d, n - 1, 2 * q)

F32Div(a, b) ==
    IF IsNaN(a) \/ IsNaN(b) THEN F32NaN
    ELSE IF IsInf(a) THEN (IF IsInf(b) THEN F32NaN ELSE <<a[1] * b[1], -2, 0>>)
    ELSE IF IsInf(b) THEN F32Zero
    ELSE IF IsZero(b) THEN (IF IsZero(a) THEN F32NaN ELSE <<a[1], -2, 0>>)
    ELSE IF IsZero(a) THEN F32Zero
    ELSE LET qr == IF a[2] >= b[2] THEN DivBits(a[2] - b[2], b[2], 23, 1)
                   ELSE DivBits(a[2], b[2], 24, 0)
             e  == IF a[2] >= b[2] THEN a[3] - b[3] - 23 ELSE a[3] - b[3] - 24
         IN  Pack(a[1] * b[1], qr[1], qr[2], b[2], e)

\* The smaller operand's significand (times 8) shifted right by d bits, the
\* bits shifted out kept as a sticky last bit.
Aligned(m, d) ==
    IF d >= 27 THEN 1
    ELSE LET p == 2 ^ d
             q == (m * 8) \div p
         IN  IF (m * 8) % p # 0 /\ q % 2 = 0 THEN q + 1 ELSE q

RECURSIVE NormDiff(_, _, _)
\* s * S * 2^(e-3), S > 0 carrying three guard bits, rounded to float32.
NormDiff(s, S, e) ==
    IF S < 8 * TwoP23 THEN NormDiff(s, 2 * S, e - 1)
    ELSE IF S >= 8 * TwoP24 THEN Pack(s, S \div 16, S % 16, 16, e + 1)
    ELSE Pack(s, S \div 8, S % 8, 8, e)

\* |a| >= |b| in magnitude, both finite and nonzero.
MagGe(a, b) == (a[3] > b[3]) \/ (a[3] = b[3] /\ a[2] >= b[2])

F32Add(a, b) ==
    IF IsNaN(a) \/ IsNaN(b) THEN F32NaN
    ELSE IF IsInf(a)
         THEN (IF IsInf(b) /\ a[1] # b[1] THEN F32NaN ELSE a)
    ELSE IF IsInf(b) THEN b
    ELSE IF IsZero(a) THEN b
    ELSE IF IsZero(b) THEN a
    ELSE LET x == IF MagGe(a, b) THEN a ELSE b
             y == IF MagGe(a, b) THEN b ELSE a
             B == Aligned(y[2], x[3] - y[3])
         IN  IF x[1] = y[1] THEN NormDiff(x[1], x[2] * 8 + B, x[3])
             ELSE IF x[2] * 8 = B THEN F32Zero
             ELSE NormDiff(x[1], x[2] * 8 - B, x[3])

F32Sub(a, b) == F32Add(a, Neg(b))

\* a > b, as numpy and TensorFlow compare: false when either is NaN.
F32Gt(a, b) ==
    LET d == F32Sub(a, b)
    IN  /\ ~IsNaN(a) /\ ~IsNaN(b)
        /\ IF IsInf(a) \/ IsInf(b)
           THEN (IsInf(a) /\ a[1] = 1 /\ ~(IsInf(b) /\ b[1] = 1))
                \/ (IsInf(b) /\ b[1] = -1 /\ ~(IsInf(a) /\ a[1] = -1))
           ELSE ~IsZero(d) /\ d[1] = 1

\* K.round on one element: to the nearest integer, halves to the even one.
F32Round(x) ==
    IF x[2] <= 0 \/ x[3] >= 0 THEN x
    ELSE IF -x[3] > 25 THEN F32Zero
    ELSE LET p == 2 ^ (-x[3])
             q == x[2] \div p
             r == x[2] % p
             n == IF (2 * r > p) \/ (2 * r = p /\ q % 2 = 1) THEN q + 1 ELSE q
         IN  IF n = 0 THEN F32Zero ELSE <<x[1], NormInt(n, 0)[2], NormInt(n, 0)[3]>>

-----------------------------------------------------------------------------
(* Tensors.  A rank-2 tensor is [cols |-> C, rows |-> <<row_1, ..., row_N>>],*)
(* each row a sequence of C float32; a rank-1 tensor is a sequence.         *)

\* The sequence s as an explicit tuple, its elements evaluated once.
Seq1(s) == SubSeq(s, 1, Len(s))

Tensor(C, rows) == [cols |-> C, rows |-> rows]
NRows(t) == Len(t.rows)

Min(a, b) == IF a < b THEN a ELSE b
Max(a, b) == IF a > b THEN a ELSE b

\* t[slice(lo, hi)]: indexing a rank-2 tensor with one slice selects ROWS.
RowSlice(t, lo, hi) == Tensor(t.cols, SubSeq(t.rows, lo + 1, Min(hi, NRows(t))))

\* t[:, slice(lo, hi)]: all rows, the columns lo..hi-1.
ColSlice(t, lo, hi) ==
    Tensor(Max(0, Min(hi, t.cols) - Min(lo, t.cols)),
           Seq1([r \in 1..NRows(t) |-> SubSeq(t.rows[r], lo + 1, Min(hi, t.cols))]))

TMul(a, b) ==
    Tensor(a.cols, Seq1([r \in 1..NRows(a) |->
              Seq1([c \in 1..a.cols |-> F32Mul(a.rows[r][c], b.rows[r][c])])]))

\* 1 - t
OneMinus(t) ==
    Tensor(t.cols, Seq1([r \in 1..NRows(t) |->
              Seq1([c \in 1..t.cols |-> F32Sub(F32One, t.rows[r][c])])]))

RECURSIVE SumRange(_, _, _, _)
\* ((acc + v[lo]) + v[lo+1]) + ... + v[hi]: accumulated left to right.  The
\* range is halved, and the left half evaluated before the right half is
\* entered (a sign is never 0), only to keep the evaluation shallow.
SumRange(v, lo, hi, acc) ==
    IF lo > hi THEN acc
    ELSE IF lo = hi THEN F32Add(acc, v[lo])
    ELSE LET mid  == (lo + hi) \div 2
             left == SumRange(v, lo, mid, acc)
         IN  IF left[1] = 0 THEN left ELSE SumRange(v, mid + 1, hi, left)

\* K.sum(v) of a rank-1 tensor.
K_sum(v) == SumRange(v, 1, Len(v), F32Zero)

\* K.sum(t, axis=0): one sum per column, over the rows.
K_sum0(t) ==
    Seq1([c \in 1..t.cols |-> K_sum([r \in 1..NRows(t) |-> t.rows[r][c]])])

\* K.mean(v) of a rank-1 tensor.
K_mean(v) == F32Div(K_sum(v), FromInt(Len(v)))

\* K.round left out: the predictions pass through as they are.
K_round_skipped(t) == t

\* K.round(t), elementwise.
K_round(t) ==
    Tensor(t.cols, Seq1([r \in 1..NRows(t) |->
              Seq1([c \in 1..t.cols |-> F32Round(t.rows[r][c])])]))

\* K.epsilon(): the backend's fuzz factor 1e-7, as a float32.
K_epsilon == <<1, 14073749, -47>>

\* The tf.where substitution left out: NaN entries stay.
NanToZero_kept(v) == v

\* tf.where(tf.math.is_nan(v), tf.zeros_like(v), v)
NanToZero(v) ==
    Seq1([c \in 1..Len(v) |-> IF IsNaN(v[c]) THEN F32Zero ELSE v[c]])

\* Width of the label matrix and of the model output.
LabelCols == 248

-----------------------------------------------------------------------------
(* The soft-F1 loss and metric functions                                   *)

\* Per-column f1 = 2pr / (p + r + eps) from the column sums tp, fp, fn.
F1OfCounts(tp, fp, fn) ==
    Seq1([c \in 1..Len(tp) |->
        LET p == F32Div(tp[c], F32Add(F32Add(tp[c], fp[c]), K_epsilon))
            r == F32Div(tp[c], F32Add(F32Add(tp[c], fn[c]), K_epsilon))
        IN  F32Div(F32Mul(F32Mul(F32Two, p), r),
                   F32Add(F32Add(p, r), K_epsilon))])

ColumnF1(y_true, y_pred) ==
    F1OfCounts(K_sum0(TMul(y_true, y_pred)),
               K_sum0(TMul(OneMinus(y_true), y_pred)),
               K_sum0(TMul(y_true, OneMinus(y_pred))))

\* The vector f1_loss averages: per-column f1 with NaN replaced by 0.
f1_terms(y_true, y_pred) == NanToZero(ColumnF1(y_true, y_pred))

f1_loss(y_true, y_pred) == F32Sub(F32One, K_mean(f1_terms(y_true, y_pred)))

f1(y_true, y_pred) == F32Sub(F32One, f1_loss(y_true, K_round(y_pred)))

\* The vector weighted_f1_loss sums: f1 * gp / sum(gp), NaN replaced by 0.
weighted_f1_terms(y_true, y_pred) ==
    LET gp == K_sum0(y_true)
        c1 == ColumnF1(y_true, y_pred)
        total == K_sum(gp)
    IN  NanToZero(Seq1([c \in 1..Len(gp) |->
                            F32Div(F32Mul(c1[c], gp[c]), total)]))

weighted_f1_loss(y_true, y_pred) ==
    F32Sub(F32One, K_sum(weighted_f1_terms(y_true, y_pred)))

weighted_f1(y_true, y_pred) ==
    F32Sub(F32One, weighted_f1_loss(y_true, K_round(y_pred)))

\* The metric partial_weighted_f1(slice(lo, hi), name) returns.
partial_weighted_f1(lo, hi, y_true, y_pred) ==
    weighted_f1(ColSlice(y_true, lo, hi), ColSlice(y_pred, lo, hi))

\* The three slices of wf1_loss_p, each applied as y[slice(lo, hi)].
wf1_loss_p(y_true, y_pred) ==
    F32Div(F32Add(F32Add(
               weighted_f1_loss(RowSlice(y_true, 0, 90), RowSlice(y_pred, 0, 90)),
               weighted_f1_loss(RowSlice(y_true, 90, 202), RowSlice(y_pred, 90, 202))),
               weighted_f1_loss(RowSlice(y_true, 202, 248), RowSlice(y_pred, 202, 248))),
           FromInt(3))

-----------------------------------------------------------------------------
(* State                                                                   *)

VARIABLES
    y_true,     \* the label batch handed to a loss or metric function
    y_pred,     \* the prediction batch handed to it
    result      \* the last call: [fn, value, terms], or NoResult

lossVars == <<y_true, y_pred, result>>

VARIABLES
    pc,             \* where the script is: "block1", "block2", "model", "compile",
                    \* "fit", "EarlyStopped", "MaxEpochsReached", "saved"
    b,              \* widths of the tensors the last block call returned
    layers,         \* per block call: the widths of its dense layers
    out_width,      \* width of the model output, 0 before Model(...)
    epoch,          \* number of epochs run so far
    weights,        \* the model parameters: [id, val], id = the epoch whose
                    \* training produced them (0: the initial ones), val =
                    \* their validation loss
    es,             \* the EarlyStopping callback: [wait, best, best_weights, stopped_epoch]
    stop_training,  \* model.stop_training
    min_val_loss,   \* lowest validation loss any epoch of the run has shown
    saved           \* the parameters written by save_weights, or NoWeights

trainVars == <<pc, b, layers, out_width, epoch, weights, es, stop_training,
               min_val_loss, saved>>

VARIABLES
    ipc,            \* where the prediction part is: "index_split", "header",
                    \* "array_split", "next", "splitter", "predict",
                    \* "threshold", "concat", "savetxt", "done", "error"
    net,            \* the trained function model.predict applies
    x_test,         \* the test table: [index, columns, values]
    index_split,    \* the identifier chunks
    chunks,         \* the list np.array_split(x_test, nb_split) returned
    i,              \* the loop index
    x_test_split,   \* the loop's chunk, then its six sub-tables
    res,            \* the chunk's predictions on their way to the file
    file,           \* the lines of pred_y.csv written so far
    events          \* what has been done so far, in order

inferVars == <<ipc, net, x_test, index_split, chunks, i, x_test_split, res,
               file, events>>

vars == <<lossVars, trainVars, inferVars>>

NoResult == [fn |-> "none", value |-> F32Zero, terms |-> <<>>]

-----------------------------------------------------------------------------
(* Model assembly and training                                             *)

\* Widths of the six Input layers.
input_layers == <<90, 112, 46, 18, 15, 8>>

\* Width of a Concatenate of two tensors; paired_input concatenates tag group
\* i with category group i.
paired_input == [j \in 1..3 |-> input_layers[j] + input_layers[j + 3]]

\* int(s * 1.2) for the integer s rounded to a whole number instead.
IntOfTimes1_2_rounded(s) == (s * 12 + 5) \div 10

\* int(s * 1.2) for an integer s: the product truncated toward zero.  A
\* double product s * 1.2 is a whole number exactly when 12 s / 10 is one
\* (1.2 is within 2^-54 of 12/10), so the truncation is that of 12 s / 10.
IntOfTimes1_2(s) == (s * 12) \div 10

\* block(inputs, act): the widths of the Dense layers it creates and of the
\* three tensors it returns.
block(inputs) ==
    [first  |-> [j \in 1..3 |-> IntOfTimes1_2(inputs[j] + inputs[j + 3])],
     second |-> 400,
     last   |-> [j \in 1..3 |-> inputs[j]],
     pairs  |-> [j \in 1..3 |-> <<inputs[j], inputs[j + 3]>>]]

epochs == 600
patience == 8
min_delta == 0

\* Validation losses are whole numbers 0..MaxLoss.
MaxLoss == 80

\* np.Inf, above every loss.
Inf == MaxLoss + 1

NoWeights == [id |-> -1, val |-> Inf]

\* The validation loss an epoch may show: one level under the best so far,
\* equal to it, or one level over it.
ValLosses == {v \in 0..MaxLoss : v >= es.best - 1 /\ v <= es.best + 1}

\* EarlyStopping.on_train_begin
on_train_begin == [wait |-> 0, best |-> Inf, best_weights |-> NoWeights,
                   stopped_epoch |-> 0]

\* on_epoch_end without the restore of the best weights when stopping.
on_epoch_end_no_restore(cb, ep, current, w) ==
    IF current - min_delta < cb.best
    THEN [cb |-> [cb EXCEPT !.best = current, !.wait = 0, !.best_weights = w],
          stop |-> FALSE, weights |-> w]
    ELSE IF cb.wait + 1 >= patience
         THEN [cb |-> [cb EXCEPT !.wait = cb.wait + 1, !.stopped_epoch = ep],
               stop |-> TRUE, weights |-> w]
         ELSE [cb |-> [cb EXCEPT !.wait = cb.wait + 1],
               stop |-> FALSE, weights |-> w]

\* EarlyStopping(monitor='val_loss', min_delta=0, patience=8,
\* restore_best_weights=True).on_epoch_end(ep, logs) with logs['val_loss'] =
\* current and the model holding the parameters w: the callback, the
\* stop_training flag and the model's parameters afterwards.
on_epoch_end(cb, ep, current, w) ==
    IF current - min_delta < cb.best
    THEN [cb |-> [cb EXCEPT !.best = current, !.wait = 0, !.best_weights = w],
          stop |-> FALSE, weights |-> w]
    ELSE IF cb.wait + 1 >= patience
         THEN [cb |-> [cb EXCEPT !.wait = cb.wait + 1, !.stopped_epoch = ep],
               stop |-> TRUE, weights |-> cb.best_weights]
         ELSE [cb |-> [cb EXCEPT !.wait = cb.wait + 1],
               stop |-> FALSE, weights |-> w]

-----------------------------------------------------------------------------
(* The feature splitter and the chunked test prediction                    *)

\* Number of feature columns of the fixed layout.
FeatureCols == 289

\* The ranges with the fifth one ending a column early.
Ranges_gap == << <<0, 90>>, <<90, 202>>, <<202, 248>>, <<248, 266>>, <<266, 280>>,
                 <<281, 289>> >>

\* The column ranges of splitter: range(lo, hi) as <<lo, hi>>.
Ranges == << <<0, 90>>, <<90, 202>>, <<202, 248>>, <<248, 266>>, <<266, 281>>,
             <<281, 289>> >>

\* A table (DataFrame): row identifiers, column names, one value row per
\* identifier.
Frame(index, columns, values) ==
    [index |-> index, columns |-> columns, values |-> values]

EmptyFrame == Frame(<<>>, <<>>, <<>>)

\* data.iloc[:, range(lo, hi)]: all rows, the columns at positions lo..hi-1.
ILocCols(data, lo, hi) ==
    Frame(data.index,
          SubSeq(data.columns, lo + 1, hi),
          Seq1([r \in 1..Len(data.values) |-> SubSeq(data.values[r], lo + 1, hi)]))

splitter(data) ==
    Seq1([g \in 1..Len(Ranges) |-> ILocCols(data, Ranges[g][1], Ranges[g][2])])

nb_split == 100

\* Section k (from 1) of np.array_split of a sequence of length l in n
\* sections, cut after the first k sections of the other sizes: the first
\* l % n sections get l \div n elements, the others one more.
section_small_first(seq, n, k) ==
    LET l      == Len(seq)
        each   == l \div n
        extras == l % n
        small  == n - extras
        st     == (k - 1) * each + Max(0, k - 1 - small)
        en     == k * each + Max(0, k - small)
    IN  SubSeq(seq, st + 1, en)

\* Section k (from 1) of n sections of l \div n elements each, the
\* remaining l % n elements left out.
section_drop_remainder(seq, n, k) ==
    SubSeq(seq, (k - 1) * (Len(seq) \div n) + 1, k * (Len(seq) \div n))

\* Section k (from 1) of np.array_split(seq, n): the first l % n sections hold
\* l \div n + 1 elements, the others l \div n.
section(seq, n, k) ==
    LET l      == Len(seq)
        each   == l \div n
        extras == l % n
        st     == (k - 1) * each + Min(k - 1, extras)
        en     == k * each + Min(k, extras)
    IN  SubSeq(seq, st + 1, en)

\* np.array_split(x_test.index, nb_split) cut with the larger sections last.
IndexSplit_small_first(table) ==
    Seq1([k \in 1..nb_split |-> section_small_first(table.index, nb_split, k)])

\* index_split = np.array_split(x_test.index, nb_split)
IndexSplit(table) ==
    Seq1([k \in 1..nb_split |-> section(table.index, nb_split, k)])

\* np.array_split(x_test, nb_split): the same sections, of the rows.
FrameSplit(table) ==
    Seq1([k \in 1..nb_split |->
            Frame(section(table.index, nb_split, k), table.columns,
                  section(table.values, nb_split, k))])

\* The trained function.  Its parameters are not part of this model: a net
\* stands for one trained function from the 289 features of a sample to 248
\* sigmoid outputs.  "tags" answers 0.25, 0.5 or 0.75 by how many of a tag
\* feature and one category feature are set; "half" answers 0.5 throughout.
Nets == {"tags", "half"}

\* The sigmoid outputs 0.25, 0.5 and 0.75.
Sigmoids == <<Level(1, 2), Level(2, 2), Level(3, 2)>>

Forward(n, features) ==
    [c \in 1..LabelCols |->
        CASE n = "tags" -> Sigmoids[1 + features[c] + features[LabelCols + 1 + (c % 41)]]
          [] OTHER      -> F32Half]

\* The feature row r of the six sub-tables handed to model.predict.
InputRow(x, r) ==
    x[1].values[r] \o x[2].values[r] \o x[3].values[r] \o x[4].values[r]
        \o x[5].values[r] \o x[6].values[r]

\* (res > 0.5).astype(int)
threshold(out) ==
    Seq1([r \in 1..Len(out) |->
            Seq1([c \in 1..Len(out[r]) |->
                    IF F32Gt(out[r][c], F32Half) THEN 1 ELSE 0])])

\* The header line: "ChallengeID" (written as 0) and the label column names.
y_columns == [c \in 1..LabelCols |-> c]
HeaderLine == [kind |-> "header", cells |-> <<0>> \o y_columns]
DataLine(cells) == [kind |-> "data", cells |-> cells]

\* Test tables have 0..MaxSmall rows, or nb_split..nb_split+MaxExtra rows.
MaxSmall == 2
MaxExtra == 2
TestSizes == (0..MaxSmall) \cup {nb_split + k : k \in 0..MaxExtra}

\* Sample identifiers of a test table of M rows: ascending or descending.
IdOrders == {"asc", "desc"}
TestIndex(M, order) ==
    [j \in 1..M |-> IF order = "asc" THEN 1000 + 7 * j ELSE 5000 - 7 * j]

\* The binary features of the sample in row j.
FeatureRow(j) == [c \in 1..FeatureCols |-> IF (c + j) % 3 = 0 THEN 1 ELSE 0]

TestTable(M, order) ==
    Frame(TestIndex(M, order), [c \in 1..FeatureCols |-> c],
          [j \in 1..M |-> FeatureRow(j)])

-----------------------------------------------------------------------------
(* Initial states                                                          *)

\* The state the training part of the script starts in.
TrainStart ==
    /\ pc = "block1"
    /\ b = <<>>
    /\ layers = <<>>
    /\ out_width = 0
    /\ epoch = 0
    /\ weights = [id |-> 0, val |-> Inf]
    /\ es = on_train_begin
    /\ stop_training = FALSE
    /\ min_val_loss = Inf
    /\ saved = NoWeights

\* No loss or metric call is under way.
LossIdle == y_true = Tensor(0, <<>>) /\ y_pred = Tensor(0, <<>>) /\ result = NoResult

InferStart ==
    /\ ipc = "index_split"
    /\ net \in Nets
    /\ \E M \in TestSizes : \E order \in IdOrders : x_test = TestTable(M, order)
    /\ index_split = <<>>
    /\ chunks = <<>>
    /\ i = 0
    /\ x_test_split = EmptyFrame
    /\ res = <<>>
    /\ file = <<>>
    /\ events = <<>>

\* The prediction part of the script is not running.
InferIdle ==
    /\ ipc = "idle"
    /\ net = "half"
    /\ x_test = EmptyFrame
    /\ index_split = <<>>
    /\ chunks = <<>>
    /\ i = 0
    /\ x_test_split = EmptyFrame
    /\ res = <<>>
    /\ file = <<>>
    /\ events = <<>>

\* The training part of the script is not running.
TrainIdle == TrainStart

TrainInit == TrainStart /\ LossIdle /\ InferIdle

InferInit == InferStart /\ LossIdle /\ TrainIdle

-----------------------------------------------------------------------------
(* Assembly and training steps                                             *)

\* b = block(input_layers, "relu")
Block1 ==
    /\ pc = "block1"
    /\ layers' = Append(layers, block(input_layers))
    /\ b' = block(input_layers).last
    /\ pc' = "block2"
    /\ UNCHANGED <<lossVars, inferVars, out_width, epoch, weights, es, stop_training, min_val_loss, saved>>

\* b = block(b + paired_input, "sigmoid")
Block2 ==
    /\ pc = "block2"
    /\ layers' = Append(layers, block(b \o paired_input))
    /\ b' = block(b \o paired_input).last
    /\ pc' = "model"
    /\ UNCHANGED <<lossVars, inferVars, out_width, epoch, weights, es, stop_training, min_val_loss, saved>>

\* model = Model(inputs = input_layers, outputs = Concatenate()(b))
BuildModel ==
    /\ pc = "model"
    /\ out_width' = b[1] + b[2] + b[3]
    /\ pc' = "compile"
    /\ UNCHANGED <<lossVars, inferVars, b, layers, epoch, weights, es, stop_training, min_val_loss, saved>>

\* model.compile(...), then model.fit(...) entered: on_train_begin.
Compile ==
    /\ pc = "compile"
    /\ es' = on_train_begin
    /\ stop_training' = FALSE
    /\ pc' = "fit"
    /\ UNCHANGED <<lossVars, inferVars, b, layers, out_width, epoch, weights, min_val_loss, saved>>

\* One epoch of model.fit: the training steps produce new parameters, the
\* validation pass measures their loss, and the callback's on_epoch_end runs.
Epoch ==
    /\ pc = "fit"
    /\ ~stop_training
    /\ epoch < epochs
    /\ \E v \in ValLosses :
         LET w == [id |-> epoch + 1, val |-> v]
             r == on_epoch_end(es, epoch + 1, v, w)
         IN  /\ epoch' = epoch + 1
             /\ es' = r.cb
             /\ stop_training' = r.stop
             /\ weights' = r.weights
             /\ min_val_loss' = Min(min_val_loss, v)
    /\ UNCHANGED <<lossVars, inferVars, pc, b, layers, out_width, saved>>

\* model.fit returns because the callback set stop_training.
FitEarlyStopped ==
    /\ pc = "fit"
    /\ stop_training
    /\ pc' = "EarlyStopped"
    /\ UNCHANGED <<lossVars, inferVars, b, layers, out_width, epoch, weights, es, stop_training,
                   min_val_loss, saved>>

\* model.fit returns because all epochs have run.
FitMaxEpochsReached ==
    /\ pc = "fit"
    /\ ~stop_training
    /\ epoch = epochs
    /\ pc' = "MaxEpochsReached"
    /\ UNCHANGED <<lossVars, inferVars, b, layers, out_width, epoch, weights, es, stop_training,
                   min_val_loss, saved>>

\* model.save_weights("weights")
SaveWeights ==
    /\ pc \in {"EarlyStopped", "MaxEpochsReached"}
    /\ saved' = weights
    /\ pc' = "saved"
    /\ UNCHANGED <<lossVars, inferVars, b, layers, out_width, epoch, weights, es, stop_training,
                   min_val_loss>>

TrainNext ==
    \/ Block1
    \/ Block2
    \/ BuildModel
    \/ Compile
    \/ Epoch
    \/ FitEarlyStopped
    \/ FitMaxEpochsReached
    \/ SaveWeights

SpecTrain == TrainInit /\ [][TrainNext]_vars

-----------------------------------------------------------------------------
(* Prediction steps                                                        *)

\* index_split = np.array_split(x_test.index, nb_split)
DoIndexSplit ==
    /\ ipc = "index_split"
    /\ index_split' = IndexSplit(x_test)
    /\ ipc' = "header"
    /\ UNCHANGED <<lossVars, trainVars, net, x_test, chunks, i, x_test_split,
                   res, file, events>>

\* open(...), file.write("ChallengeID,"), np.savetxt of the label names.
WriteHeader ==
    /\ ipc = "header"
    /\ file' = Append(file, HeaderLine)
    /\ events' = Append(events, <<"header", 0>>)
    /\ ipc' = "array_split"
    /\ UNCHANGED <<lossVars, trainVars, net, x_test, index_split, chunks, i,
                   x_test_split, res>>

\* The loop is entered: np.array_split(x_test, nb_split) is evaluated once.
DoArraySplit ==
    /\ ipc = "array_split"
    /\ chunks' = FrameSplit(x_test)
    /\ i' = 0
    /\ ipc' = "next"
    /\ UNCHANGED <<lossVars, trainVars, net, x_test, index_split, x_test_split,
                   res, file, events>>

\* enumerate yields chunk i.
NextChunk ==
    /\ ipc = "next"
    /\ i < nb_split
    /\ x_test_split' = chunks[i + 1]
    /\ events' = Append(events, <<"next", i>>)
    /\ ipc' = "splitter"
    /\ UNCHANGED <<lossVars, trainVars, net, x_test, index_split, chunks, i,
                   res, file>>

\* The loop is exhausted and the file closed.
LoopEnd ==
    /\ ipc = "next"
    /\ i = nb_split
    /\ ipc' = "done"
    /\ UNCHANGED <<lossVars, trainVars, net, x_test, index_split, chunks, i,
                   x_test_split, res, file, events>>

\* x_test_split = splitter(x_test_split)
DoSplitter ==
    /\ ipc = "splitter"
    /\ x_test_split' = splitter(x_test_split)
    /\ ipc' = "predict"
    /\ UNCHANGED <<lossVars, trainVars, net, x_test, index_split, chunks, i,
                   res, file, events>>

\* res = model.predict(x_test_split) on a chunk with rows.
Predict ==
    /\ ipc = "predict"
    /\ Len(x_test_split[1].values) > 0
    /\ res' = [r \in 1..Len(x_test_split[1].values) |->
                 Forward(net, InputRow(x_test_split, r))]
    /\ events' = Append(events, <<"predict", i>>)
    /\ ipc' = "threshold"
    /\ UNCHANGED <<lossVars, trainVars, net, x_test, index_split, chunks, i,
                   x_test_split, file>>

\* res = model.predict(x_test_split) on a chunk without rows.  What Keras
\* does with an input of no rows depends on its release: tf.keras of
\* TensorFlow 2.2 and later raises ValueError ("Expect x to be a non-empty
\* array or dataset."), so the script ends with the file as written so far.
\* The other outcome, an array of no rows, is kept as well.
PredictEmptyRaises ==
    /\ ipc = "predict"
    /\ Len(x_test_split[1].values) = 0
    /\ ipc' = "error"
    /\ UNCHANGED <<lossVars, trainVars, net, x_test, index_split, chunks, i,
                   x_test_split, res, file, events>>

PredictEmptyReturns ==
    /\ ipc = "predict"
    /\ Len(x_test_split[1].values) = 0
    /\ res' = <<>>
    /\ events' = Append(events, <<"predict", i>>)
    /\ ipc' = "threshold"
    /\ UNCHANGED <<lossVars, trainVars, net, x_test, index_split, chunks, i,
                   x_test_split, file>>

\* res = res > 0.5; res = res.astype(int)
Threshold ==
    /\ ipc = "threshold"
    /\ res' = threshold(res)
    /\ ipc' = "concat"
    /\ UNCHANGED <<lossVars, trainVars, net, x_test, index_split, chunks, i,
                   x_test_split, file, events>>

\* res = np.concatenate((index_split[i]...reshape(res.shape[0], 1), res), axis=1)
\* The reshape needs an identifier chunk of as many elements as res has rows.
Concat ==
    /\ ipc = "concat"
    /\ Len(index_split[i + 1]) = Len(res)
    /\ res' = [r \in 1..Len(res) |-> <<index_split[i + 1][r]>> \o res[r]]
    /\ ipc' = "savetxt"
    /\ UNCHANGED <<lossVars, trainVars, net, x_test, index_split, chunks, i,
                   x_test_split, file, events>>

\* np.savetxt writing the header line again before the chunk's rows.
SaveTxt_with_header ==
    /\ ipc = "savetxt"
    /\ file' = Append(file, HeaderLine) \o [r \in 1..Len(res) |-> DataLine(res[r])]
    /\ events' = Append(events, <<"append", i>>)
    /\ i' = i + 1
    /\ ipc' = "next"
    /\ UNCHANGED <<lossVars, trainVars, net, x_test, index_split, chunks,
                   x_test_split, res>>

\* np.savetxt(file, res, fmt='%d', delimiter=","), and the loop goes on.
SaveTxt ==
    /\ ipc = "savetxt"
    /\ file' = file \o [r \in 1..Len(res) |-> DataLine(res[r])]
    /\ events' = Append(events, <<"append", i>>)
    /\ i' = i + 1
    /\ ipc' = "next"
    /\ UNCHANGED <<lossVars, trainVars, net, x_test, index_split, chunks,
                   x_test_split, res>>

InferNext ==
    \/ DoIndexSplit
    \/ WriteHeader
    \/ DoArraySplit
    \/ NextChunk
    \/ LoopEnd
    \/ DoSplitter
    \/ Predict
    \/ PredictEmptyRaises
    \/ PredictEmptyReturns
    \/ Threshold
    \/ Concat
    \/ SaveTxt

SpecInfer == InferInit /\ [][InferNext]_vars

-----------------------------------------------------------------------------
(* The loss and metric functions applied to small batches                  *)

\* A batch has at most MaxCells entries.
MaxCells == 3

\* Sigmoid outputs drawn for a prediction: 0, 0.5, 0.75 and 1.
PredLevels == {F32Zero, Level(1, 1), Level(3, 2), F32One}
TrueLevels == {F32Zero, F32One}

Shapes == {sh \in (0..MaxCells) \X (1..MaxCells) : sh[1] * sh[2] <= MaxCells}

Batches(sh, levels) == {Tensor(sh[2], rows) : rows \in [1..sh[1] -> [1..sh[2] -> levels]]}

LossInit ==
    /\ \E sh \in Shapes :
         /\ y_true \in Batches(sh, TrueLevels)
         /\ y_pred \in Batches(sh, PredLevels)
    /\ result = NoResult
    /\ TrainIdle
    /\ InferIdle

Apply_f1_loss ==
    /\ result = NoResult
    /\ result' = [fn |-> "f1_loss", value |-> f1_loss(y_true, y_pred),
                  terms |-> f1_terms(y_true, y_pred)]
    /\ UNCHANGED <<y_true, y_pred, trainVars, inferVars>>

Apply_weighted_f1_loss ==
    /\ result = NoResult
    /\ result' = [fn |-> "weighted_f1_loss",
                  value |-> weighted_f1_loss(y_true, y_pred),
                  terms |-> weighted_f1_terms(y_true, y_pred)]
    /\ UNCHANGED <<y_true, y_pred, trainVars, inferVars>>

Apply_f1 ==
    /\ result = NoResult
    /\ result' = [fn |-> "f1", value |-> f1(y_true, y_pred),
                  terms |-> f1_terms(y_true, K_round(y_pred))]
    /\ UNCHANGED <<y_true, y_pred, trainVars, inferVars>>

Apply_weighted_f1 ==
    /\ result = NoResult
    /\ result' = [fn |-> "weighted_f1", value |-> weighted_f1(y_true, y_pred),
                  terms |-> weighted_f1_terms(y_true, K_round(y_pred))]
    /\ UNCHANGED <<y_true, y_pred, trainVars, inferVars>>

LossNext ==
    \/ Apply_f1_loss
    \/ Apply_weighted_f1_loss
    \/ Apply_f1
    \/ Apply_weighted_f1

SpecLoss == LossInit /\ [][LossNext]_vars

-----------------------------------------------------------------------------
(* The training loss and the per-category metrics on full-width batches    *)

\* A full-width batch has at most MaxBatch rows.
MaxBatch == 2

\* Label rows drawn: a positive in every k-th column.
RowKinds == {2, 3}
LabelRow(k) == [c \in 1..LabelCols |-> IF c % k = 0 THEN F32One ELSE F32Zero]

PredModes == {"match", "soft", "ones", "zeros"}
PredRow(mode, row) ==
    [c \in 1..LabelCols |->
        CASE mode = "match" -> row[c]
          [] mode = "soft"  -> IF row[c] = F32One THEN Level(3, 2) ELSE Level(1, 2)
          [] mode = "ones"  -> F32One
          [] OTHER          -> F32Zero]

LossPInit ==
    /\ \E n \in 1..MaxBatch : \E kinds \in [1..n -> RowKinds] : \E mode \in PredModes :
         /\ y_true = Tensor(LabelCols, [r \in 1..n |-> LabelRow(kinds[r])])
         /\ y_pred = Tensor(LabelCols, [r \in 1..n |-> PredRow(mode, LabelRow(kinds[r]))])
    /\ result = NoResult
    /\ TrainIdle
    /\ InferIdle

\* custom_loss = wf1_loss_p, as model.compile installs it.
Apply_wf1_loss_p ==
    /\ result = NoResult
    /\ result' = [fn |-> "wf1_loss_p", value |-> wf1_loss_p(y_true, y_pred),
                  terms |-> <<>>]
    /\ UNCHANGED <<y_true, y_pred, trainVars, inferVars>>

Apply_wf1_genres ==
    /\ result = NoResult
    /\ result' = [fn |-> "wf1_genres",
                  value |-> partial_weighted_f1(0, 90, y_true, y_pred),
                  terms |-> <<>>]
    /\ UNCHANGED <<y_true, y_pred, trainVars, inferVars>>

Apply_wf1_instruments ==
    /\ result = NoResult
    /\ result' = [fn |-> "wf1_instruments",
                  value |-> partial_weighted_f1(90, 202, y_true, y_pred),
                  terms |-> <<>>]
    /\ UNCHANGED <<y_true, y_pred, trainVars, inferVars>>

Apply_wf1_moods ==
    /\ result = NoResult
    /\ result' = [fn |-> "wf1_moods",
                  value |-> partial_weighted_f1(202, 248, y_true, y_pred),
                  terms |-> <<>>]
    /\ UNCHANGED <<y_true, y_pred, trainVars, inferVars>>

LossPNext ==
    \/ Apply_wf1_loss_p
    \/ Apply_wf1_genres
    \/ Apply_wf1_instruments
    \/ Apply_wf1_moods

SpecLossP == LossPInit /\ [][LossPNext]_vars

-----------------------------------------------------------------------------
(* Claims about the loss engine                                            *)

ZeroSupport(c) == \A r \in 1..NRows(y_true) : y_true.rows[r][c] = F32Zero

\* The average of weighted_f1_loss over the three label-column ranges.
ColumnRangeAverage ==
    F32Div(F32Add(F32Add(
               weighted_f1_loss(ColSlice(y_true, 0, 90), ColSlice(y_pred, 0, 90)),
               weighted_f1_loss(ColSlice(y_true, 90, 202), ColSlice(y_pred, 90, 202))),
               weighted_f1_loss(ColSlice(y_true, 202, 248), ColSlice(y_pred, 202, 248))),
           FromInt(3))

\* C5: wf1_loss_p equals the unweighted average of weighted_f1_loss taken
\* over all batch rows on the genres columns [0,90), the instruments columns
\* [90,202) and the moods columns [202,248).
C5_LossIsColumnRangeAverage ==
    result.fn = "wf1_loss_p" => result.value = ColumnRangeAverage

\* C6: a label column without a positive in the batch contributes exactly 0,
\* never NaN, to the mean of f1_loss and to the weighted sum of
\* weighted_f1_loss, whatever the predictions and also when no column has a
\* positive.
C6_ZeroSupportContributesZero ==
    result.fn \in {"f1_loss", "weighted_f1_loss"} =>
        \A c \in 1..y_true.cols : ZeroSupport(c) => result.terms[c] = F32Zero

\* weighted_f1_loss was applied to a batch without any positive and with a
\* nonzero prediction in every column.
C6_Witness ==
    /\ result.fn = "weighted_f1_loss"
    /\ NRows(y_true) >= 1 /\ y_true.cols >= 2
    /\ \A c \in 1..y_true.cols : ZeroSupport(c)
    /\ \A c \in 1..y_true.cols : y_pred.rows[1][c] # F32Zero

\* The rounded predictions equal the labels and every column has a positive.
PerfectMatch ==
    /\ \A r \in 1..NRows(y_true) : \A c \in 1..y_true.cols :
          F32Round(y_pred.rows[r][c]) = y_true.rows[r][c]
    /\ \A c \in 1..y_true.cols : ~ZeroSupport(c)

\* C7 as stated: on a perfect match the f1 and weighted_f1 metrics are 1.0.
C7_PerfectMatchIsOne ==
    (result.fn \in {"f1", "weighted_f1"} /\ PerfectMatch) => result.value = F32One

\* 0.0001 as a float32.
MetricTol == <<1, 13743895, -37>>

\* C7 as amended: on a perfect match the f1 and weighted_f1 metrics are
\* within 0.0001 of 1.0.
C7_PerfectMatchIsNearOne ==
    (result.fn \in {"f1", "weighted_f1"} /\ PerfectMatch) =>
        /\ F32Gt(result.value, F32Sub(F32One, MetricTol))
        /\ F32Gt(F32Add(F32One, MetricTol), result.value)

\* weighted_f1 was applied to a perfect match of two columns or more, one of
\* them predicted softly (0.75 for a positive).
C7_Witness ==
    /\ result.fn = "weighted_f1"
    /\ PerfectMatch
    /\ y_true.cols >= 2
    /\ \E c \in 1..y_true.cols : y_pred.rows[1][c] = Level(3, 2)

-----------------------------------------------------------------------------
(* Claims about the assembly and the training run                          *)

\* C2: when the last strict improvement of the validation loss is at epoch 5
\* and the next 8 epochs do not improve on it, training halts at epoch 13, no
\* epoch 14 is run, and the model then holds the parameters snapshotted at
\* epoch 5.
C2_HaltsAtEpoch13WithEpoch5Weights ==
    (es.best_weights.id = 5 /\ epoch >= 5 + patience) =>
        /\ epoch = 13
        /\ stop_training
        /\ es.stopped_epoch = 13
        /\ weights = es.best_weights
        /\ weights.id = 5

\* Training has halted after epoch 13 with the best loss seen at epoch 5, and
\* the run was saved.
C2_Witness ==
    /\ pc = "saved"
    /\ epoch = 13
    /\ es.best_weights.id = 5
    /\ saved.id = 5

\* C3: on both termination paths the parameters persisted by save_weights
\* are those of an epoch with the lowest validation loss of the run.
C3_SavedWeightsAreBest ==
    pc = "saved" => (saved.id >= 1 /\ saved.val = min_val_loss)

\* The first-dense input pairs the claim lists for block 1 and block 2.
ClaimedPairs ==
    << << <<90, 18>>, <<112, 15>>, <<46, 8>> >>,
       << <<90, 108>>, <<112, 127>>, <<46, 54>> >> >>

\* 1.2 * s rounded to the nearest whole number.
Round1_2(s) == (s * 12 + 5) \div 10

\* 1.2 * s truncated to a whole number.
Floor1_2(s) == (s * 12) \div 10

\* C8 as stated: the first dense layer i of each block has width
\* round(1.2 * (width_i + width_{i+3})) for the listed pairs.
C8_FirstDenseWidthIsRounded ==
    \A k \in 1..Len(layers) : \A j \in 1..3 :
        /\ layers[k].pairs[j] = ClaimedPairs[k][j]
        /\ layers[k].first[j] = Round1_2(ClaimedPairs[k][j][1] + ClaimedPairs[k][j][2])

\* C8 as amended: the width is 1.2 * (width_i + width_{i+3}) truncated, that
\* is 129, 152, 64 in block 1 and 237, 286, 120 in block 2.
C8_FirstDenseWidthIsTruncated ==
    \A k \in 1..Len(layers) : \A j \in 1..3 :
        /\ layers[k].pairs[j] = ClaimedPairs[k][j]
        /\ layers[k].first[j] = Floor1_2(ClaimedPairs[k][j][1] + ClaimedPairs[k][j][2])
        /\ layers[k].first = <<<<129, 152, 64>>, <<237, 286, 120>>>>[k]

\* Both blocks are built and the model is assembled with its 248 outputs.
C8_Witness == Len(layers) = 2 /\ out_width = LabelCols /\ pc = "compile"

-----------------------------------------------------------------------------
(* Claims about the splitter and the chunked prediction                    *)

\* The prediction part has ended, normally or by an exception.
Ended == ipc \in {"done", "error"}

\* The data lines of the file, in the order written.
DataLines == SelectSeq(file, LAMBDA l : l.kind = "data")

\* C1: whatever the number M of test rows, also below the 100 chunks, the
\* run leaves exactly M data rows in the output, in the row order of the
\* test table, each of 249 columns: the identifier and 248 labels in {0,1}.
C1_OutputHasEveryRowOnce ==
    Ended =>
        /\ Len(DataLines) = Len(x_test.index)
        /\ \A r \in 1..Len(DataLines) :
              /\ Len(DataLines[r].cells) = 249
              /\ DataLines[r].cells[1] = x_test.index[r]
              /\ \A c \in 2..249 : DataLines[r].cells[c] \in {0, 1}

\* A table of fewer rows than chunks went through: its rows are written and
\* a chunk without rows was reached.
C1_Witness ==
    /\ Ended
    /\ Len(x_test.index) = 2
    /\ Len(DataLines) = 2
    /\ i >= 2

\* The column counts the claim lists for the six sub-tables.
ClaimedWidths == <<90, 112, 46, 18, 15, 8>>
ClaimedRanges == << <<0, 90>>, <<90, 202>>, <<202, 248>>, <<248, 266>>,
                    <<266, 281>>, <<281, 289>> >>

\* The chunk the loop is working on.
CurrentChunk == chunks[i + 1]

\* x_test_split holds the output of splitter.
AfterSplitter == ipc \in {"predict", "threshold", "concat", "savetxt"}

\* C4: splitter returns 6 sub-tables, in the order of the ranges [0,90),
\* [90,202), [202,248), [248,266), [266,281), [281,289), each with the rows
\* of its input in their order and 90, 112, 46, 18, 15 and 8 columns, so
\* that every one of the 289 input columns is in exactly one sub-table.
C4_SplitterPartitionsColumns ==
    AfterSplitter =>
        /\ Len(x_test_split) = 6
        /\ \A g \in 1..6 :
              /\ x_test_split[g].index = CurrentChunk.index
              /\ Len(x_test_split[g].values) = Len(CurrentChunk.values)
              /\ Len(x_test_split[g].columns) = ClaimedWidths[g]
              /\ \A c \in 1..ClaimedWidths[g] :
                    /\ x_test_split[g].columns[c]
                         = CurrentChunk.columns[ClaimedRanges[g][1] + c]
                    /\ \A r \in 1..Len(CurrentChunk.values) :
                          /\ Len(x_test_split[g].values[r]) = ClaimedWidths[g]
                          /\ x_test_split[g].values[r][c]
                               = CurrentChunk.values[r][ClaimedRanges[g][1] + c]
        /\ x_test_split[1].columns \o x_test_split[2].columns
             \o x_test_split[3].columns \o x_test_split[4].columns
             \o x_test_split[5].columns \o x_test_split[6].columns
             = CurrentChunk.columns
        /\ Len(CurrentChunk.columns) = 289

\* splitter has returned the sub-tables of a chunk of two rows.
C4_Witness ==
    /\ ipc = "predict"
    /\ Len(CurrentChunk.values) = 2
    /\ Len(x_test_split[6].values) = 2

\* Entry p of the one order in which the events may happen: the header,
\* then for chunk 0, 1, 2, ... its fetch, its forward pass and its append.
Canonical(p) ==
    IF p = 1 THEN <<"header", 0>>
    ELSE << <<"next", "predict", "append">>[((p - 2) % 3) + 1], (p - 2) \div 3 >>

\* The identifiers of the chunks before chunk k (from 0), concatenated.
RECURSIVE IdsBefore(_)
IdsBefore(k) == IF k = 0 THEN <<>> ELSE IdsBefore(k - 1) \o index_split[k]

C10_IdentifierChunksMatchFeatureChunks ==
    /\ (index_split # <<>> /\ chunks # <<>>) =>
          \A k \in 1..nb_split : index_split[k] = chunks[k].index
    /\ Ended =>
          \A r \in 1..Len(DataLines) :
              /\ DataLines[r].cells[1] = x_test.index[r]
              /\ SubSeq(DataLines[r].cells, 2, Len(DataLines[r].cells))
                   = threshold(<<Forward(net, x_test.values[r])>>)[1]

\* A table of a single row, whose chunks differ in length, went through
\* with a net that answers both labels: its row is written.
C10_Witness ==
    /\ Ended
    /\ net = "tags"
    /\ Len(index_split[1]) = 1
    /\ Len(index_split[2]) = 0
    /\ Len(DataLines) = 1
    /\ \E c \in 2..249 : DataLines[1].cells[c] = 1
    /\ \E c \in 2..249 : DataLines[1].cells[c] = 0

=============================================================================
